---- MODULE Spec2Model ----
(***************************************************************************)
(* MinedMap PNG tile codec and mipmap composer (src/src/PNG.cpp).          *)
(*                                                                         *)
(* Buffers are functions over 0..n-1, so that every index of the model is  *)
(* the index the C++ code computes.  A file on disk is a record: absent,   *)
(* malformed, or a PNG with its header fields and its rows.                *)
(*                                                                         *)
(* Two specifications share the module:                                    *)
(*   Spec       one call of mipmap(), one step per function it calls;      *)
(*   SpecCodec  calls of write() and read() on one path.                   *)
(***************************************************************************)
EXTENDS Integers, Sequences, FiniteSets

VARIABLES
    \* ---- one mipmap() call -------------------------------------------
    width, height, colored,   \* arguments of mipmap
    children,                 \* nw, ne, sw, se: the file behind each path, or null
    data,                     \* the parent buffer (std::unique_ptr<uint8_t[]> data)
    pc,                       \* position in mipmap
    decoded,                  \* log of read() calls: <<quadrant, status>>
    writeCalls,               \* number of write() calls made
    encoded,                  \* the buffer handed to write()
    output,                   \* the file at the output path
    oob,                      \* an access outside an allocated buffer happened
    beyond,                   \* the byte a read outside the child buffer finds
    err,                      \* the exception that left mipmap, if any
    \* ---- direct calls of write() / read() ----------------------------
    file,                     \* the file at the path
    written,                  \* arguments of the write() that produced file
    dest,                     \* read()'s destination buffer after the call
    destBefore,               \* the same buffer before the call
    last                      \* the last call: op, arguments, fault, result

mipmapVars == <<width, height, colored, children, data, pc, decoded,
                writeCalls, encoded, output, oob, beyond, err>>
codecVars == <<file, written, dest, destBefore, last>>
vars == <<mipmapVars, codecVars>>

-----------------------------------------------------------------------------
(* Bounds of the model. *)

MaxDim == 4
MaxSeed == 1

Dims == 1..MaxDim
Seeds == 0..MaxSeed

\* Values an out-of-bounds or uninitialised read may produce.
GarbageBytes == {0, 255}

-----------------------------------------------------------------------------
(* Pixel formats and files. *)

BitDepth == 8

bpp(c) == IF c THEN 4 ELSE 2

ColorType(c) == IF c THEN "RGB_ALPHA" ELSE "GRAY_ALPHA"

\* Channels of a PNG colour type (libpng).
Channels(color) ==
    CASE color = "GRAY_ALPHA" -> 2
      [] color = "RGB_ALPHA" -> 4
      [] color = "RGB" -> 3
      [] OTHER -> 1

Null == [kind |-> "null"]
Absent == [kind |-> "absent"]
Malformed == [kind |-> "malformed"]

\* buf[i], or g when i lies outside the buffer.
At(buf, i, g) == IF i \in DOMAIN buf THEN buf[i] ELSE g

-----------------------------------------------------------------------------
(* write(): PNG.cpp lines 41-76. *)

\* Faults the environment can inject into one call.
WriteFaults == {"none", "open", "write_struct", "info_struct", "codec"}
ReadFaults == {"none", "open", "read_struct", "info_struct", "end_info", "codec"}

\* &data[(colored ? 4 : 2)*i*width], line 69.
WriteRowPtr(i, w, c) == bpp(c) * i * w

\* The rows libpng emits: row i is the rowbytes of the header starting at
\* row_pointers[i] (lines 64-72).
EncodeRows(buf, w, h, c) == [i \in 0..(h - 1) |-> [j \in 0..(Channels(ColorType(c)) * w - 1) |-> At(buf, WriteRowPtr(i, w, c) + j, 0)]]

PngFile(buf, w, h, c) == [kind |-> "png", width |-> w, height |-> h, depth |-> BitDepth, color |-> ColorType(c), rows |-> EncodeRows(buf, w, h, c)]

\* The result of write(filename, buf, w, h, c) when the path holds `old`:
\* the exception thrown (or "ok"), the file left behind, and whether the
\* FILE* opened by the call is still open when control leaves the call.
write(old, buf, w, h, c, fault) ==
    IF fault = "open"
    THEN [status |-> "system_error", cause |-> "open", file |-> old, f_open |-> FALSE]
    ELSE IF fault = "write_struct"
    THEN [status |-> "runtime_error", cause |-> "write_struct", file |-> Malformed, f_open |-> TRUE]
    ELSE IF fault = "info_struct"
    THEN [status |-> "runtime_error", cause |-> "info_struct", file |-> Malformed, f_open |-> TRUE]
    ELSE IF fault = "codec"
    THEN [status |-> "runtime_error", cause |-> "png_write", file |-> Malformed, f_open |-> FALSE]
    ELSE [status |-> "ok", cause |-> "none", file |-> PngFile(buf, w, h, c), f_open |-> FALSE]

-----------------------------------------------------------------------------
(* read(): PNG.cpp lines 78-121. *)

\* Mismatch without the bit-depth test.
MismatchNoDepth(f, w, h, c) ==
    \/ f.width # w
    \/ f.height # h
    \/ f.color # ColorType(c)

\* The validation of lines 109-112.
Mismatch(f, w, h, c) ==
    \/ f.width # w
    \/ f.height # h
    \/ f.depth # BitDepth
    \/ f.color # ColorType(c)

\* ReadRowDst with the two-byte pixel size for both formats.
ReadRowDstGray(i, w, c) == 2 * i * w

\* &data[(colored ? 4 : 2)*i*width], line 117.
ReadRowDst(i, w, c) == bpp(c) * i * w

\* row_pointers[i][j]
RowByte(rows, i, j) == IF i \in DOMAIN rows THEN At(rows[i], j, 0) ELSE 0

\* The memcpy of line 117 for row i.
CopyRow(buf, rows, i, w, c) == [k \in DOMAIN buf |-> IF (k - ReadRowDst(i, w, c)) \in 0..(bpp(c) * w - 1) THEN RowByte(rows, i, k - ReadRowDst(i, w, c)) ELSE buf[k]]

\* The loop of lines 116-117, from row i on.
RECURSIVE CopyRows(_, _, _, _, _, _)
CopyRows(i, buf, rows, w, h, c) ==
    IF i >= h THEN buf
    ELSE CopyRows(i + 1, CopyRow(buf, rows, i, w, c), rows, w, h, c)

\* The result of read(filename, buf, w, h, c) when the path holds f.
read(f, buf, w, h, c, fault) ==
    IF f.kind = "absent" \/ fault = "open"
    THEN [status |-> "system_error", cause |-> "open", data |-> buf, f_open |-> FALSE]
    ELSE IF fault = "read_struct"
    THEN [status |-> "runtime_error", cause |-> "read_struct", data |-> buf, f_open |-> TRUE]
    ELSE IF fault = "info_struct"
    THEN [status |-> "runtime_error", cause |-> "info_struct", data |-> buf, f_open |-> TRUE]
    ELSE IF fault = "end_info"
    THEN [status |-> "runtime_error", cause |-> "end_info", data |-> buf, f_open |-> TRUE]
    ELSE IF f.kind = "malformed" \/ fault = "codec"
    THEN [status |-> "runtime_error", cause |-> "png_read", data |-> buf, f_open |-> FALSE]
    ELSE IF Mismatch(f, w, h, c)
    THEN [status |-> "runtime_error", cause |-> "mismatch", data |-> buf, f_open |-> FALSE]
    ELSE [status |-> "ok", cause |-> "none", data |-> CopyRows(0, buf, f.rows, w, h, c), f_open |-> FALSE]

-----------------------------------------------------------------------------
(* Input images. *)

\* Channel ch of the pixel at (r, col) of input image number `seed` for
\* quadrant number q.  Image 0 differs at every position; image 1 is made of
\* 2x2 blocks that are uniformly 255 or {0,0,0,3}; the others are further
\* images that differ at every position.
TestPixel(seed, q, r, col, ch) ==
    IF seed = 0 THEN (7 * r + 3 * col + ch + 13 * q + 1) % 256
    ELSE IF seed = 1 THEN (IF ((r \div 2) + (col \div 2)) % 2 = 0 THEN 255 ELSE IF r % 2 = 1 /\ col % 2 = 1 THEN 3 ELSE 0)
    ELSE (seed * (7 * r + 3 * col + ch) + 13 * q + 1) % 256

TestImage(seed, q, w, h, b) == [k \in 0..(b * w * h - 1) |-> TestPixel(seed, q, k \div (b * w), (k % (b * w)) \div b, k % b)]

\* A PNG not necessarily produced by write(): any bit depth and colour type.
ForeignFile(seed, w, h, depth, color) == [kind |-> "png", width |-> w, height |-> h, depth |-> depth, color |-> color, rows |-> [i \in 0..(h - 1) |-> [j \in 0..(Channels(color) * (depth \div 8) * w - 1) |-> TestPixel(seed, 0, i, j, 0)]]]

ForeignFiles == {ForeignFile(0, w, h, d, col) : w \in Dims, h \in Dims, d \in {8, 16}, col \in {"GRAY_ALPHA", "RGB_ALPHA", "RGB"}}

EmptyBuf == [k \in {} |-> 0]

NoWrite == [kind |-> "none"]

-----------------------------------------------------------------------------
(* Direct calls of write() and read() on one path. *)

MipmapIdle ==
    /\ width = 0 /\ height = 0 /\ colored = FALSE
    /\ children = [nw |-> Null, ne |-> Null, sw |-> Null, se |-> Null]
    /\ data = EmptyBuf /\ pc = "idle" /\ decoded = <<>> /\ writeCalls = 0
    /\ encoded = EmptyBuf /\ output = Absent /\ oob = FALSE /\ beyond = 0 /\ err = "none"

InitCodec ==
    /\ MipmapIdle
    /\ file \in {Absent, Malformed} \cup ForeignFiles
    /\ written = NoWrite
    /\ dest = EmptyBuf
    /\ destBefore = EmptyBuf
    /\ last = [op |-> "none"]

\* A caller runs write(path, buf, w, h, c).  A session on the path is any
\* number of writes followed by one read.
CallWrite ==
    /\ last.op # "read"
    /\ \E w \in Dims, h \in Dims, c \in BOOLEAN, s \in Seeds, fault \in WriteFaults :
        LET buf == TestImage(s, 0, w, h, bpp(c))
            r == write(file, buf, w, h, c, fault)
        IN /\ file' = r.file
           /\ written' = IF r.status = "ok"
                         THEN [kind |-> "some", data |-> buf, width |-> w, height |-> h, colored |-> c]
                         ELSE IF r.cause = "open" THEN written ELSE NoWrite
           /\ last' = [op |-> "write", fault |-> fault, status |-> r.status, cause |-> r.cause, f_open |-> r.f_open]
           /\ UNCHANGED <<dest, destBefore, mipmapVars>>

\* A caller runs read(path, buf, w, h, c) on a buffer of bpp*w*h bytes.
CallRead ==
    /\ last.op # "read"
    /\ \E w \in Dims, h \in Dims, c \in BOOLEAN, fault \in ReadFaults, g \in GarbageBytes :
        LET buf == [k \in 0..(bpp(c) * w * h - 1) |-> g]
            r == read(file, buf, w, h, c, fault)
        IN /\ dest' = r.data
           /\ destBefore' = buf
           /\ last' = [op |-> "read", width |-> w, height |-> h, colored |-> c, fault |-> fault, status |-> r.status, cause |-> r.cause, f_open |-> r.f_open]
           /\ UNCHANGED <<file, written, mipmapVars>>

NextCodec == CallWrite \/ CallRead

SpecCodec == InitCodec /\ [][NextCodec]_vars

-----------------------------------------------------------------------------
(* readScaled(): PNG.cpp lines 123-140. *)

Quadrants == {"nw", "ne", "sw", "se"}

QuadNum(q) == CASE q = "nw" -> 0 [] q = "ne" -> 1 [] q = "sw" -> 2 [] OTHER -> 3

\* size_t i = 2*b*(width*h + w) + c, line 135.
SrcIdx(b, w_, h, w, c) == 2 * b * (w_ * h + w) + c

\* The four indices read from the child buffer, line 136.
ReadIdx(b, w_, h, w, c) == {SrcIdx(b, w_, h, w, c), SrcIdx(b, w_, h, w, c) + b, SrcIdx(b, w_, h, w, c) + b * w_, SrcIdx(b, w_, h, w, c) + b * w_ + b}

\* The index written in the parent buffer, line 136.
DstIdx(b, w_, offset_w, offset_h, h, w, c) == b * (w_ * (offset_h + h) + offset_w + w) + c

\* (input[i] + input[i+b] + input[i+b*width] + input[i+b*width+b])/4 stored
\* into a uint8_t; the sum is computed in int.  g is what a read outside
\* the child buffer yields.
Average(input, b, w_, h, w, c, g) ==
    ((At(input, SrcIdx(b, w_, h, w, c), g) + At(input, SrcIdx(b, w_, h, w, c) + b, g)
      + At(input, SrcIdx(b, w_, h, w, c) + b * w_, g) + At(input, SrcIdx(b, w_, h, w, c) + b * w_ + b, g)) \div 4) % 256

\* The bounds of the loops of lines 132-134: h and w both run to width/2.
LoopH(w_, h_) == w_ \div 2
LoopW(w_, h_) == w_ \div 2

\* The iterations (h, w, c) of the loop nest, in order, as one counter n.
IterH(n, b, w_, h_) == n \div (LoopW(w_, h_) * b)
IterW(n, b, w_, h_) == (n \div b) % LoopW(w_, h_)
IterC(n, b) == n % b
IterCount(b, w_, h_) == LoopH(w_, h_) * LoopW(w_, h_) * b

\* One assignment of line 136; a store outside the parent buffer does not
\* land in it.
Store(buf, i, v) == IF i \in DOMAIN buf THEN [buf EXCEPT ![i] = v] ELSE buf

\* The loop nest of lines 132-139 from iteration n on.
RECURSIVE ScaleLoop(_, _, _, _, _, _, _, _, _)
ScaleLoop(n, buf, input, offset_w, offset_h, w_, h_, b, g) ==
    IF n >= IterCount(b, w_, h_) THEN buf
    ELSE ScaleLoop(n + 1,
                   Store(buf,
                         DstIdx(b, w_, offset_w, offset_h, IterH(n, b, w_, h_), IterW(n, b, w_, h_), IterC(n, b)),
                         Average(input, b, w_, IterH(n, b, w_, h_), IterW(n, b, w_, h_), IterC(n, b), g)),
                   input, offset_w, offset_h, w_, h_, b, g)

\* Some access of the loop nest lies outside the b*width*height bytes of
\* the child buffer or of the parent buffer.
ScaleOOB(offset_w, offset_h, w_, h_, b) ==
    \E n \in 0..(IterCount(b, w_, h_) - 1) :
        \/ \E i \in ReadIdx(b, w_, IterH(n, b, w_, h_), IterW(n, b, w_, h_), IterC(n, b)) : i >= b * w_ * h_
        \/ DstIdx(b, w_, offset_w, offset_h, IterH(n, b, w_, h_), IterW(n, b, w_, h_), IterC(n, b)) >= b * w_ * h_

-----------------------------------------------------------------------------
(* mipmap(): PNG.cpp lines 142-153. *)

\* ZeroBuffer without the memset: the allocation keeps what it held.
StaleBuffer(size) == [k \in 0..(size - 1) |-> 255]

\* std::memset(data.get(), 0, size), line 145.
ZeroBuffer(size) == [k \in 0..(size - 1) |-> 0]

\* The offsets passed at lines 147-150.
OffsetW(q, w_) == IF q \in {"ne", "se"} THEN w_ \div 2 ELSE 0
OffsetH(q, h_) == IF q \in {"sw", "se"} THEN h_ \div 2 ELSE 0

\* The call after the one for quadrant q, lines 147-152.
NextCall(q) == CASE q = "nw" -> "ne" [] q = "ne" -> "sw" [] q = "sw" -> "se" [] OTHER -> "write"

\* AfterRead with the exception swallowed.
AfterReadSwallowed(status, q) == NextCall(q)

\* Where mipmap continues after read() ended with `status` in the pass for
\* q: an exception of read leaves readScaled and mipmap (lines 130, 147-150).
AfterRead(status, q) == IF status # "ok" THEN "failed" ELSE NextCall(q)

Path == [kind |-> "path"]

\* What may lie behind the path of quadrant q's child: nothing, a file
\* that is no PNG, a PNG with another header, or a tile written by write().
ChildDescs == {[kind |-> "absent"], [kind |-> "malformed"]} \cup {[kind |-> "foreign", differs |-> x] : x \in {"width", "height", "depth", "color"}} \cup {[kind |-> "tile", seed |-> s] : s \in Seeds}

ChildFile(d, q, w, h, c) ==
    CASE d.kind = "absent" -> Absent
      [] d.kind = "malformed" -> Malformed
      [] d.kind = "foreign" /\ d.differs = "width" -> ForeignFile(0, w + 1, h, 8, ColorType(c))
      [] d.kind = "foreign" /\ d.differs = "height" -> ForeignFile(0, w, h + 1, 8, ColorType(c))
      [] d.kind = "foreign" /\ d.differs = "depth" -> ForeignFile(0, w, h, 16, ColorType(c))
      [] d.kind = "foreign" /\ d.differs = "color" -> ForeignFile(0, w, h, 8, ColorType(~c))
      [] OTHER -> PngFile(TestImage(d.seed, QuadNum(q), w, h, bpp(c)), w, h, c)

CodecIdle ==
    /\ file = Absent /\ written = NoWrite /\ dest = EmptyBuf
    /\ destBefore = EmptyBuf /\ last = [op |-> "none"]

NoErr == [phase |-> "none"]

\* mipmap(output, width, height, colored, nw, ne, sw, se) is entered.
Init ==
    /\ CodecIdle
    /\ width \in Dims /\ height \in Dims /\ colored \in BOOLEAN
    /\ children \in [Quadrants -> {Null, Path}]
    /\ data = EmptyBuf /\ pc = "call" /\ decoded = <<>> /\ writeCalls = 0
    /\ encoded = EmptyBuf /\ output = Absent /\ oob = FALSE /\ beyond = 0 /\ err = NoErr

\* Lines 143-145: the parent buffer is allocated and zeroed.
Alloc ==
    /\ pc = "call"
    /\ data' = ZeroBuffer(bpp(colored) * width * height)
    /\ pc' = "nw"
    /\ UNCHANGED <<width, height, colored, children, decoded, writeCalls, encoded, output, oob, beyond, err, codecVars>>

\* readScaled for a null path: lines 124-125.
ReadScaledNull(q) ==
    /\ pc = q
    /\ children[q] = Null
    /\ pc' = NextCall(q)
    /\ UNCHANGED <<width, height, colored, children, data, decoded, writeCalls, encoded, output, oob, beyond, err, codecVars>>

\* The log entry of a read() of the file described by d that ended with r;
\* a failed read decoded no file.
Unread == [kind |-> "none"]

LogEntry(q, d, r) == [q |-> q, file |-> d, status |-> r.status, cause |-> r.cause]

\* The ways read() can end for quadrant q's child: over every file that may
\* lie behind the path and every fault.
ReadOutcomes(q, w, h, c) == {LogEntry(q, Unread, read(ChildFile(d, q, w, h, c), EmptyBuf, w, h, c, fault)) : d \in {x \in ChildDescs : x.kind # "tile"}, fault \in ReadFaults} \cup {LogEntry(q, Unread, read(ChildFile(d, q, w, h, c), EmptyBuf, w, h, c, fault)) : d \in {x \in ChildDescs : x.kind = "tile"}, fault \in ReadFaults \ {"none"}}

\* readScaled for a path whose read() fails: lines 127-130.
ReadScaledFail(q) ==
    /\ pc = q
    /\ children[q] # Null
    /\ \E o \in ReadOutcomes(q, width, height, colored) :
          /\ o.status # "ok"
          /\ decoded' = Append(decoded, o)
          /\ pc' = AfterRead(o.status, q)
          /\ err' = IF AfterRead(o.status, q) = "failed" THEN [phase |-> "decode", q |-> q, status |-> o.status] ELSE err
    /\ UNCHANGED <<width, height, colored, children, data, writeCalls, encoded, output, oob, beyond, codecVars>>

\* readScaled for a path whose read() succeeds: lines 127-139.  When the
\* loop nest leaves its buffers the behaviour is undefined: the process
\* crashes, or goes on with reads outside the child buffer yielding the
\* byte `beyond` (arbitrary, the same for the whole call).
ReadScaledOk(q) ==
    /\ pc = q
    /\ children[q] # Null
    /\ \E d \in ChildDescs :
          LET b == bpp(colored)
              r == read(ChildFile(d, q, width, height, colored), ZeroBuffer(b * width * height), width, height, colored, "none")
              bad == ScaleOOB(OffsetW(q, width), OffsetH(q, height), width, height, b)
          IN /\ r.status = "ok"
             /\ decoded' = Append(decoded, LogEntry(q, d, r))
             /\ oob' = (oob \/ bad)
             /\ \E g \in (IF bad /\ ~oob THEN GarbageBytes ELSE {beyond}), crash \in (IF bad THEN BOOLEAN ELSE {FALSE}) :
                   /\ beyond' = g
                   /\ IF crash
                      THEN pc' = "crashed" /\ data' = data
                      ELSE /\ pc' = AfterRead(r.status, q)
                           /\ data' = ScaleLoop(0, data, r.data, OffsetW(q, width), OffsetH(q, height), width, height, b, g)
    /\ UNCHANGED <<width, height, colored, children, writeCalls, encoded, output, err, codecVars>>

\* Line 152: the parent buffer is encoded.
WriteOutput ==
    /\ pc = "write"
    /\ \E fault \in WriteFaults :
          LET r == write(output, data, width, height, colored, fault)
          IN /\ output' = r.file
             /\ pc' = IF r.status = "ok" THEN "done" ELSE "failed"
             /\ err' = IF r.status = "ok" THEN err ELSE [phase |-> "encode", q |-> "none", status |-> r.status]
    /\ encoded' = data
    /\ writeCalls' = writeCalls + 1
    /\ UNCHANGED <<width, height, colored, children, data, decoded, oob, beyond, codecVars>>

Next ==
    \/ Alloc
    \/ \E q \in Quadrants : ReadScaledNull(q)
    \/ \E q \in Quadrants : ReadScaledFail(q)
    \/ \E q \in Quadrants : ReadScaledOk(q)
    \/ WriteOutput

Spec == Init /\ [][Next]_vars

-----------------------------------------------------------------------------
(* Properties of mipmap(), checked under Spec. *)

Even(n) == n % 2 = 0

\* Quadrant q's child was decoded successfully.
DecodedOk(q) == \E i \in DOMAIN decoded : decoded[i].q = q /\ decoded[i].status = "ok"

\* The child tile decoded for quadrant q, and channel ch of its pixel (r, col).
TileOf(q) == ChildFile(decoded[CHOOSE i \in DOMAIN decoded : decoded[i].q = q].file, q, width, height, colored)
Src(q, r, col, ch) == TileOf(q).rows[r][(IF colored THEN 4 ELSE 2) * col + ch]

\* Channel ch of the parent pixel (r, col).
Parent(r, col, ch) == data[(IF colored THEN 4 ELSE 2) * (width * r + col) + ch]

\* The first row and column of quadrant q in the parent.
QuadRow(q) == IF q \in {"sw", "se"} THEN height \div 2 ELSE 0
QuadCol(q) == IF q \in {"ne", "se"} THEN width \div 2 ELSE 0

\* The 2x2 box filter of quadrant q's child at (h, w), channel c.
BoxFilter(q, h, w, c) == (Src(q, 2 * h, 2 * w, c) + Src(q, 2 * h, 2 * w + 1, c) + Src(q, 2 * h + 1, 2 * w, c) + Src(q, 2 * h + 1, 2 * w + 1, c)) \div 4

Composed == pc \in {"write", "done"}

\* C1: for even width and height, once the passes are done every pixel
\* (h, w) of every present child's quadrant, 0 <= h < height/2 and
\* 0 <= w < width/2, holds in each channel the floor of the mean of the
\* child's 2x2 block, the sum taken without 8-bit wraparound.
C1_BoxFilterEveryPixel ==
    (Composed /\ Even(width) /\ Even(height)) =>
        \A q \in Quadrants : DecodedOk(q) =>
            \A h \in 0..(height \div 2 - 1), w \in 0..(width \div 2 - 1), c \in 0..((IF colored THEN 4 ELSE 2) - 1) :
                Parent(QuadRow(q) + h, QuadCol(q) + w, c) = BoxFilter(q, h, w, c)

\* Pixel (r, col) of the parent lies in quadrant q.
InQuadrant(q, r, col) ==
    /\ r \in QuadRow(q)..(QuadRow(q) + height \div 2 - 1)
    /\ col \in QuadCol(q)..(QuadCol(q) + width \div 2 - 1)

\* C2: for even width and height, with exactly one child present, every
\* byte of the other three quadrants is zero when the buffer reaches the
\* encoder and the populated quadrant is the box-filtered child.
C2_QuadrantIsolation ==
    (Composed /\ Even(width) /\ Even(height)) =>
        \A q \in Quadrants :
            (DecodedOk(q) /\ \A o \in Quadrants \ {q} : children[o] = Null) =>
                /\ \A r \in 0..(height - 1), col \in 0..(width - 1), c \in 0..((IF colored THEN 4 ELSE 2) - 1) :
                      ~InQuadrant(q, r, col) => Parent(r, col, c) = 0
                /\ \A h \in 0..(height \div 2 - 1), w \in 0..(width \div 2 - 1), c \in 0..((IF colored THEN 4 ELSE 2) - 1) :
                      Parent(QuadRow(q) + h, QuadCol(q) + w, c) = BoxFilter(q, h, w, c)

\* C3: a failed decode of a present child ends mipmap with that error: the
\* failed read is the last one, no child is read twice, write is never
\* called and the output path is untouched.
C3_DecodeFailureAborts ==
    /\ \A i \in DOMAIN decoded : \A j \in DOMAIN decoded : i # j => decoded[i].q # decoded[j].q
    /\ \A i \in DOMAIN decoded :
          decoded[i].status # "ok" =>
              /\ i = Len(decoded)
              /\ pc = "failed"
              /\ err = [phase |-> "decode", q |-> decoded[i].q, status |-> decoded[i].status]
              /\ writeCalls = 0
              /\ encoded = EmptyBuf
              /\ output = Absent

C3_Witness ==
    /\ pc = "failed" /\ Len(decoded) = 2
    /\ decoded[1].status = "ok" /\ decoded[2].status # "ok" /\ decoded[2].q = "ne"
    /\ children["sw"] # Null /\ children["se"] # Null /\ writeCalls = 0

\* C6: with all four children absent and even width and height, mipmap
\* decodes nothing and calls write exactly once, on a buffer of
\* bpp*width*height zero bytes.
C6_AllAbsentIsEmptyTile ==
    ((\A q \in Quadrants : children[q] = Null) /\ Even(width) /\ Even(height)) =>
        /\ decoded = <<>>
        /\ pc # "crashed"
        /\ pc \in {"call", "nw", "ne", "sw", "se", "write"} => writeCalls = 0
        /\ pc \in {"done", "failed"} =>
              /\ writeCalls = 1
              /\ DOMAIN encoded = 0..((IF colored THEN 4 ELSE 2) * width * height - 1)
              /\ \A k \in DOMAIN encoded : encoded[k] = 0
              /\ pc = "failed" => err.phase = "encode"
              /\ pc = "done" => output.kind = "png" /\ \A i \in DOMAIN output.rows : \A j \in DOMAIN output.rows[i] : output.rows[i][j] = 0

C6_Witness ==
    /\ \A q \in Quadrants : children[q] = Null
    /\ Even(width) /\ Even(height) /\ width # height /\ colored
    /\ pc = "done" /\ writeCalls = 1 /\ decoded = <<>>
    /\ output.kind = "png" /\ output.width = width /\ output.height = height

\* The bytes of the parent buffer the pass for quadrant q stores to.
WriteRegion(q) == {DstIdx(bpp(colored), width, OffsetW(q, width), OffsetH(q, height), IterH(n, bpp(colored), width, height), IterW(n, bpp(colored), width, height), IterC(n, bpp(colored))) : n \in 0..(IterCount(bpp(colored), width, height) - 1)}

\* The parent buffer after the passes of the decoded children run in `order`.
RECURSIVE ComposeInOrder(_, _)
ComposeInOrder(order, buf) ==
    IF order = <<>> THEN buf
    ELSE ComposeInOrder(Tail(order),
                        IF DecodedOk(Head(order))
                        THEN ScaleLoop(0, buf, read(TileOf(Head(order)), ZeroBuffer(bpp(colored) * width * height), width, height, colored, "none").data, OffsetW(Head(order), width), OffsetH(Head(order), height), width, height, bpp(colored), beyond)
                        ELSE buf)

Orders == {o \in [1..4 -> Quadrants] : \A i \in 1..4, j \in 1..4 : i # j => o[i] # o[j]}

\* C7: for even width and height the passes of the present children store
\* to pairwise disjoint bytes of the parent buffer, and every order of the
\* passes gives the buffer of the order NW, NE, SW, SE.
C7_PassesIndependent ==
    (Even(width) /\ Even(height)) =>
        /\ \A q1 \in Quadrants, q2 \in Quadrants :
              (q1 # q2 /\ DecodedOk(q1) /\ DecodedOk(q2)) => WriteRegion(q1) \cap WriteRegion(q2) = {}
        /\ Composed => \A o \in Orders : ComposeInOrder(o, ZeroBuffer(bpp(colored) * width * height)) = data

\* C9: mipmap with an odd width or height does not go on as for even
\* dimensions: no child is decoded and no tile is encoded.
C9_OddDimensionsRejected ==
    (~Even(width) \/ ~Even(height)) => (decoded = <<>> /\ writeCalls = 0 /\ pc # "done")

\* C10: for even width and height every index the loop nest of readScaled
\* reads from the child buffer or writes to the parent buffer is below
\* bpp*width*height.
C10_IndicesInBounds ==
    (Even(width) /\ Even(height)) =>
        /\ ~oob
        /\ \A q \in Quadrants : DecodedOk(q) =>
              \A h \in 0..(LoopH(width, height) - 1), w \in 0..(LoopW(width, height) - 1), c \in 0..(bpp(colored) - 1) :
                  /\ \A i \in ReadIdx(bpp(colored), width, h, w, c) : i < bpp(colored) * width * height
                  /\ DstIdx(bpp(colored), width, OffsetW(q, width), OffsetH(q, height), h, w, c) < bpp(colored) * width * height

-----------------------------------------------------------------------------
(* Properties of write() and read(), checked under SpecCodec. *)

\* C4: every file handle opened by read or write is closed when control
\* returns to the caller, on every exit path.
C4_HandleClosedOnEveryExit == last.op \in {"read", "write"} => ~last.f_open

\* The file's header differs from the requested width, height, depth 8 or layout.
HeaderDiffers(f, w, h, c) == f.width # w \/ f.height # h \/ f.depth # 8 \/ f.color # (IF c THEN "RGB_ALPHA" ELSE "GRAY_ALPHA")

\* C5: read of a well-formed file whose width, height, bit depth or colour
\* layout differs from the request fails, with the format error (not the
\* open-failure error) once the file is decoded, and leaves the destination
\* buffer byte-for-byte unchanged.
C5_MismatchRejected ==
    (last.op = "read" /\ file.kind = "png" /\ HeaderDiffers(file, last.width, last.height, last.colored))
        => /\ last.status # "ok"
           /\ dest = destBefore
           /\ (last.fault = "none" => last.status = "runtime_error" /\ last.cause = "mismatch")

C5_Witness ==
    /\ last.op = "read" /\ file.kind = "png" /\ last.fault = "none"
    /\ file.width = last.width /\ file.height = last.height
    /\ file.color = ColorType(last.colored) /\ file.depth = 16
    /\ last.cause = "mismatch" /\ dest = destBefore /\ DOMAIN dest # {}

\* C8: write followed by read with the same width, height and format
\* succeeds and returns the written buffer byte for byte; the file holds the
\* rows top to bottom, each bpp*width bytes of the buffer, without padding.
C8_RoundTrip ==
    /\ written.kind = "some" =>
          /\ file.kind = "png" /\ file.width = written.width /\ file.height = written.height
          /\ file.depth = 8 /\ file.color = (IF written.colored THEN "RGB_ALPHA" ELSE "GRAY_ALPHA")
          /\ DOMAIN file.rows = 0..(written.height - 1)
          /\ \A i \in DOMAIN file.rows :
                /\ DOMAIN file.rows[i] = 0..((IF written.colored THEN 4 ELSE 2) * written.width - 1)
                /\ \A j \in DOMAIN file.rows[i] : file.rows[i][j] = written.data[(IF written.colored THEN 4 ELSE 2) * written.width * i + j]
    /\ (/\ last.op = "read" /\ written.kind = "some" /\ last.fault = "none"
        /\ last.width = written.width /\ last.height = written.height /\ last.colored = written.colored)
          => last.status = "ok" /\ dest = written.data

C8_Witness ==
    /\ last.op = "read" /\ written.kind = "some" /\ last.fault = "none"
    /\ last.width = written.width /\ last.height = written.height /\ last.colored = written.colored
    /\ last.colored /\ last.width # last.height /\ last.height > 1
    /\ last.status = "ok" /\ dest = written.data /\ dest # destBefore

====
